---- MODULE Spec2Model ----
(***************************************************************************)
(* Model of scripts/update_readme.py: the fetch -> parse -> merge ->       *)
(* render -> write-if-changed pipeline that regenerates README.md.         *)
(*                                                                         *)
(* Text is modelled as a sequence of tokens.  A token is one character     *)
(* ("A", "|", " "), or one fixed literal of the program or of its inputs   *)
(* that the code only ever handles as a whole (a tag such as "<td>", the   *)
(* prefix "**Last updated:**", a glyph).  "LF" is "\n", "CR" is "\r",      *)
(* "BS" is the backslash.                                                  *)
(***************************************************************************)
EXTENDS Integers, Sequences, FiniteSets, TLC

VARIABLES
    pc,               \* position of the run inside main (or of a function under test)
    run,              \* number of the current run of main (the job is periodic)
    now,              \* the UTC clock, in minutes
    sheet_url,        \* SHEET_CSV_URL: "" or a URL
    csv_content,      \* body of the sheet response, as the rows csv.reader yields
    readme,           \* body of the SimplifyJobs response
    sheet_jobs,
    simplify_jobs,
    jobs,
    readme_content,
    existing_content,
    disk,             \* README.md on disk: [exists, data]
    exit_code,        \* -1 while running, else the process exit status
    raised,           \* "" or the exception that left main uncaught
    io_log,           \* reads and writes of README.md in this run, in order
    sheet_fetch,      \* outcome of requests.get for the sheet in this run
    simplify_fetch,   \* outcome of requests.get for SimplifyJobs in this run
    prev_wrote,       \* whether the previous run wrote README.md
    prev_jobs,        \* merged list of the previous run
    column_mapping,   \* parse_csv's mapping while it is being built
    field_idx,        \* parse_csv's position in reader.fieldnames
    job,              \* argument of generate_table_row
    table_row         \* result of generate_table_row

vars == <<pc, run, now, sheet_url, csv_content, readme, sheet_jobs, simplify_jobs,
          jobs, readme_content, existing_content, disk, exit_code, raised, io_log,
          sheet_fetch, simplify_fetch, prev_wrote, prev_jobs, column_mapping,
          field_idx, job, table_row>>

---------------------------------------------------------------------------
(* Bounds of the model *)
MaxSheet == 2
MaxSimplify == 2
MaxCols == 3
MaxCells == 4
MaxRuns == 2
MaxClock == 1

---------------------------------------------------------------------------
(* Strings *)

Whitespace == {" ", "LF", "CR"}

UpperToLower == [c \in {"A", "B", "C", "L", "N", "R"} |->
                   CASE c = "A" -> "a" [] c = "B" -> "b" [] c = "C" -> "c"
                     [] c = "L" -> "l" [] c = "N" -> "n" [] c = "R" -> "r"]

\* str.lower()
Lower(s) == [i \in 1..Len(s) |->
               IF s[i] \in DOMAIN UpperToLower THEN UpperToLower[s[i]] ELSE s[i]]

RECURSIVE LStrip(_)
LStrip(s) == IF s # <<>> /\ Head(s) \in Whitespace THEN LStrip(Tail(s)) ELSE s

RECURSIVE RStrip(_)
RStrip(s) == IF s # <<>> /\ s[Len(s)] \in Whitespace
             THEN RStrip(SubSeq(s, 1, Len(s) - 1)) ELSE s

\* str.strip()
Strip(s) == RStrip(LStrip(s))

\* sub in s
Contains(s, sub) ==
    \E i \in 0..(Len(s) - Len(sub)) : SubSeq(s, i + 1, i + Len(sub)) = sub

RECURSIVE Replace(_, _, _)
\* s.replace(old, new) for a one-character old
Replace(s, old, new) ==
    IF s = <<>> THEN <<>>
    ELSE (IF Head(s) = old THEN new ELSE <<Head(s)>>) \o Replace(Tail(s), old, new)

RECURSIVE Concat(_)
\* the concatenation of a sequence of strings
Concat(ss) == IF ss = <<>> THEN <<>> ELSE Head(ss) \o Concat(Tail(ss))

\* all sequences over S of length at most n
SeqsUpTo(S, n) == UNION {[1..k -> S] : k \in 0..n}

---------------------------------------------------------------------------
(* Job records: a dict from some of the expected column names to strings *)

EXPECTED_COLUMNS == <<"company", "role", "location", "apply link">>

\* job.get(k, "")
Get(j, k) == IF k \in DOMAIN j THEN j[k] ELSE <<>>

Job(c, r, l, a) == [k \in {"company", "role", "location", "apply link"} |->
                      CASE k = "company" -> c [] k = "role" -> r
                        [] k = "location" -> l [] k = "apply link" -> a]

---------------------------------------------------------------------------
(* merge_jobs *)

\* a buggy key: not case-folded
MergeKeyCaseSensitive(j) == <<Get(j, "company"), Get(j, "role")>>

\* key = (job.get("company", "").lower(), job.get("role", "").lower())
MergeKey(j) == <<Lower(Get(j, "company")), Lower(Get(j, "role"))>>

RECURSIVE MergeLoop(_, _, _)
\* one for-loop of merge_jobs: the state is <<seen, merged>>
MergeLoop(js, seen, merged) ==
    IF js = <<>> THEN <<seen, merged>>
    ELSE LET key == MergeKey(Head(js)) IN
         IF key \notin seen
         THEN MergeLoop(Tail(js), seen \cup {key}, Append(merged, Head(js)))
         ELSE MergeLoop(Tail(js), seen, merged)

\* a buggy merge_jobs: the SimplifyJobs entries are added first
MergeSimplifyFirst(sheet, simplify) ==
    LET first == MergeLoop(simplify, {}, <<>>)
    IN  MergeLoop(sheet, first[1], first[2])[2]

merge_jobs(sheet, simplify) ==
    LET first == MergeLoop(sheet, {}, <<>>)
    IN  MergeLoop(simplify, first[1], first[2])[2]

---------------------------------------------------------------------------
(* parse_csv *)

\* the text of each expected column name
ExpectedText == [e \in {"company", "role", "location", "apply link"} |->
    CASE e = "company" -> <<"c", "o", "m", "p", "a", "n", "y">>
      [] e = "role" -> <<"r", "o", "l", "e">>
      [] e = "location" -> <<"l", "o", "c", "a", "t", "i", "o", "n">>
      [] e = "apply link" -> <<"a", "p", "p", "l", "y", " ", "l", "i", "n", "k">>]

\* expected in field_lower or field_lower in expected
Overlaps(expected, field_lower) ==
    \/ Contains(field_lower, ExpectedText[expected])
    \/ Contains(ExpectedText[expected], field_lower)

\* the indices of the expected columns the inner loop would accept for a field
MatchingExpected(field) ==
    {i \in DOMAIN EXPECTED_COLUMNS : Overlaps(EXPECTED_COLUMNS[i], Strip(Lower(field)))}

Min(S) == CHOOSE x \in S : \A y \in S : x <= y
Max(S) == CHOOSE x \in S : \A y \in S : x >= y

\* column_mapping[expected] = field
SetItem(mapping, key, value) ==
    [k \in DOMAIN mapping \cup {key} |-> IF k = key THEN value ELSE mapping[k]]

\* one iteration of "for field in reader.fieldnames": the inner loop stops at the
\* first expected column that overlaps, and assigns unconditionally
MapField(mapping, field) ==
    LET m == MatchingExpected(field) IN
    IF m = {} THEN mapping
    ELSE SetItem(mapping, EXPECTED_COLUMNS[Min(m)], field)

RECURSIVE BuildMapping(_, _)
BuildMapping(fieldnames, mapping) ==
    IF fieldnames = <<>> THEN mapping
    ELSE BuildMapping(Tail(fieldnames), MapField(mapping, Head(fieldnames)))

\* csv.DictReader: the value a data row holds under a field name.  dict(zip(...))
\* keeps the last column of that name; a column the row is too short for holds
\* restval, which is None
RowValue(fieldnames, data, name) ==
    LET i == Max({n \in DOMAIN fieldnames : fieldnames[n] = name})
    IN  IF i <= Len(data) THEN [none |-> FALSE, text |-> data[i]]
        ELSE [none |-> TRUE, text |-> <<>>]

\* row.get(actual, "").strip() raises AttributeError on None
RowRaises(fieldnames, mapping, data) ==
    \E e \in DOMAIN mapping : RowValue(fieldnames, data, mapping[e]).none

RowJob(fieldnames, mapping, data) ==
    [e \in DOMAIN mapping |-> Strip(RowValue(fieldnames, data, mapping[e]).text)]

RECURSIVE ParseRows(_, _, _, _)
\* "for row in reader": DictReader skips the rows csv.reader yields empty
ParseRows(fieldnames, mapping, rows, acc) ==
    IF rows = <<>> THEN [raised |-> "", jobs |-> acc]
    ELSE IF Head(rows) = <<>> THEN ParseRows(fieldnames, mapping, Tail(rows), acc)
    ELSE IF RowRaises(fieldnames, mapping, Head(rows))
         THEN [raised |-> "AttributeError", jobs |-> <<>>]
    ELSE LET j == RowJob(fieldnames, mapping, Head(rows)) IN
         ParseRows(fieldnames, mapping, Tail(rows),
                   IF Get(j, "company") # <<>> /\ Get(j, "role") # <<>>
                   THEN Append(acc, j) ELSE acc)

\* parse_csv: the result, or the exception it raises
parse_csv(content) ==
    IF content = <<>> THEN [raised |-> "", jobs |-> <<>>]
    ELSE ParseRows(content[1], BuildMapping(content[1], <<>>), Tail(content), <<>>)

---------------------------------------------------------------------------
(* fetch_simplify_hardware_jobs: the parsing of a fetched document.          *)
(* "HW_SECTION" is the literal hw_section_header, "LOCK" the literal of the  *)
(* closed-position test and "ARROW" the literal of the continuation test.    *)

\* the tokens that are markup tags: "<", characters other than ">", ">"
Tags == {"<tr>", "</tr>", "<td>", "</td>", "<strong>", "</strong>", "<img>",
         "<a href=c>", "<a href=d>", "<a href=u>", "<a>", "</a>"}

\* the tags <a[^>]*> matches
AOpen == {"<a href=c>", "<a href=d>", "<a href=u>", "<a>"}

\* the value of the href attribute of an <a> tag that has one
Href == [t \in {"<a href=c>", "<a href=d>", "<a href=u>"} |->
            CASE t = "<a href=c>" -> <<"c">> [] t = "<a href=d>" -> <<"d">>
              [] t = "<a href=u>" -> <<"u">>]

\* s.find(sub, start): the first index >= start where sub occurs, or 0
Find(s, sub, start) ==
    LET at == {i \in start..(Len(s) - Len(sub) + 1) : SubSeq(s, i, i + Len(sub) - 1) = sub}
    IN  IF at = {} THEN 0 ELSE Min(at)

\* readme[hw_start:hw_end], or "no section"
HwSection(doc) ==
    LET hw_start == Find(doc, <<"HW_SECTION">>, 1)
        hw_end == Find(doc, <<"LF", "## ">>, hw_start + 1)
    IN  IF hw_start = 0 THEN [found |-> FALSE, text |-> <<>>]
        ELSE IF hw_end = 0 THEN [found |-> TRUE, text |-> SubSeq(doc, hw_start, Len(doc))]
        ELSE [found |-> TRUE, text |-> SubSeq(doc, hw_start, hw_end - 1)]

RECURSIVE Between(_, _, _, _)
\* re.findall of opener(.*?)closer with DOTALL: the shortest stretches, left to right
Between(s, openers, closer, from) ==
    LET o == {i \in from..Len(s) : s[i] \in openers} IN
    IF o = {} THEN <<>>
    ELSE LET c == {i \in (Min(o) + 1)..Len(s) : s[i] = closer} IN
         IF c = {} THEN <<>>
         ELSE <<SubSeq(s, Min(o) + 1, Min(c) - 1)>> \o Between(s, openers, closer, Min(c) + 1)

\* re.finditer(r'<tr>(.*?)</tr>', hw_section, re.DOTALL)
TableRows(section) == Between(section, {"<tr>"}, "</tr>", 1)

\* re.findall(r'<td[^>]*>(.*?)</td>', row, re.DOTALL)
RowCells(row) == Between(row, {"<td>"}, "</td>", 1)

\* a buggy closed test: only the first cell is searched
IsClosedFirstCell(row) ==
    RowCells(row) # <<>> /\ \E i \in DOMAIN RowCells(row)[1] : RowCells(row)[1][i] = "LOCK"

\* 'LOCK' in row
IsClosed(row) == \E i \in DOMAIN row : row[i] = "LOCK"

\* '>ARROW<' in row or '<td>ARROW</td>' in row
IsContinuation(row) ==
    \E i \in 2..(Len(row) - 1) :
        row[i] = "ARROW" /\ row[i - 1] \in Tags /\ row[i + 1] \in Tags

\* re.search(r'<a[^>]*>([^<]+)</a>', cell): group(1).strip(), or "" without a match
LinkText(cell) ==
    LET hits == {i \in DOMAIN cell :
                   /\ cell[i] \in AOpen
                   /\ \E j \in (i + 2)..Len(cell) :
                         /\ cell[j] = "</a>"
                         /\ \A k \in (i + 1)..(j - 1) : cell[k] \notin Tags}
    IN  IF hits = {} THEN <<>>
        ELSE LET i == Min(hits)
                 j == Min({n \in (i + 1)..Len(cell) : cell[n] \in Tags})
             IN  Strip(SubSeq(cell, i + 1, j - 1))

\* re.sub(r'<[^>]+>', '', cell).strip()
StripTags(cell) == Strip(SelectSeq(cell, LAMBDA t : t \notin Tags))

\* re.search(r'<a[^>]*href="([^"]+)"', cell): group(1).strip(), or "" without a match
FirstHref(cell) ==
    LET hits == {i \in DOMAIN cell : cell[i] \in DOMAIN Href}
    IN  IF hits = {} THEN <<>> ELSE Strip(Href[cell[Min(hits)]])

\* the body of the loop over the rows: the jobs one row appends
RowJobs(row) ==
    IF IsClosed(row) THEN <<>>
    ELSE IF IsContinuation(row) THEN <<>>
    ELSE LET cells == RowCells(row) IN
         IF Len(cells) < 4 THEN <<>>
         ELSE LET company == LinkText(cells[1])
                  role == StripTags(cells[2])
                  location == StripTags(cells[3])
                  apply_url == FirstHref(cells[4])
              IN  IF company # <<>> /\ role # <<>>
                  THEN <<Job(company, role, location, apply_url)>>
                  ELSE <<>>

RECURSIVE ParseTable(_)
ParseTable(rows) ==
    IF rows = <<>> THEN <<>> ELSE RowJobs(Head(rows)) \o ParseTable(Tail(rows))

\* fetch_simplify_hardware_jobs after a successful fetch
ParseSimplify(doc) ==
    IF ~HwSection(doc).found THEN <<>>
    ELSE ParseTable(TableRows(HwSection(doc).text))

---------------------------------------------------------------------------
(* generate_table_row *)

EscapePipes(s) == Replace(s, "|", <<"BS", "|">>)

generate_table_row(j) ==
    LET company == EscapePipes(Get(j, "company"))
        role == EscapePipes(Get(j, "role"))
        location == EscapePipes(Get(j, "location"))
        apply_link == Get(j, "apply link")
        apply_cell == IF apply_link # <<>>
                      THEN <<"<a href=\"">> \o apply_link \o <<"\" target=\"_blank\">Apply</a>">>
                      ELSE <<"EM_DASH">>
    IN  <<"|", " ">> \o company \o <<" ", "|", " ">> \o role \o <<" ", "|", " ">>
        \o location \o <<" ", "|", " ">> \o apply_cell \o <<" ", "|", "LF">>

---------------------------------------------------------------------------
(* generate_readme, strip_timestamp and the text-mode file *)

\* README_HEADER.format(timestamp=...); the timestamp holds no line break
ReadmeHeader(timestamp) ==
    <<"# Hardware Internships", "LF", "LF",
      "A curated list of hardware engineering internships.", "LF", "LF",
      "**Last updated:**", " ", timestamp, "LF", "LF", "---", "LF", "LF">>

README_TABLE_HEADER ==
    <<"| Company | Role | Location | Apply |", "LF",
      "|---------|------|----------|-------|", "LF">>

RECURSIVE TableRowsOf(_)
TableRowsOf(js) ==
    IF js = <<>> THEN <<>> ELSE generate_table_row(Head(js)) \o TableRowsOf(Tail(js))

generate_readme(js, timestamp) ==
    ReadmeHeader(timestamp) \o
    (IF js # <<>>
     THEN <<"PROMO", "LF", "LF", "## Internships", "LF", "LF">>
          \o README_TABLE_HEADER \o TableRowsOf(js)
     ELSE <<"*No internship listings available yet.*", "LF">>)

\* datetime.now(timezone.utc).strftime("%Y-%m-%d %H:%M UTC")
Timestamp(minute) == ToString(minute)

RECURSIVE SplitLines(_, _)
\* content.split("\n"): cur is the line being read
SplitLines(s, cur) ==
    IF s = <<>> THEN <<cur>>
    ELSE IF Head(s) = "LF" THEN <<cur>> \o SplitLines(Tail(s), <<>>)
    ELSE SplitLines(Tail(s), Append(cur, Head(s)))

RECURSIVE JoinLines(_)
\* "\n".join(lines)
JoinLines(lines) ==
    IF lines = <<>> THEN <<>>
    ELSE IF Len(lines) = 1 THEN lines[1]
    ELSE lines[1] \o <<"LF">> \o JoinLines(Tail(lines))

\* line.startswith("**Last updated:**")
IsTimestampLine(line) == line # <<>> /\ line[1] = "**Last updated:**"

strip_timestamp(content) ==
    JoinLines(SelectSeq(SplitLines(content, <<>>), LAMBDA line : ~IsTimestampLine(line)))

RECURSIVE UniversalNewlines(_)
\* f.read() of a file opened in text mode: "\r\n" and "\r" are read as "\n"
UniversalNewlines(data) ==
    IF data = <<>> THEN <<>>
    ELSE IF Head(data) = "CR"
         THEN <<"LF">> \o UniversalNewlines(
                  IF Len(data) >= 2 /\ data[2] = "LF" THEN Tail(Tail(data)) ELSE Tail(data))
    ELSE <<Head(data)>> \o UniversalNewlines(Tail(data))

\* a buggy main: the file is opened without the existence test
path_exists_unchecked(d) == TRUE

\* os.path.exists(readme_path)
path_exists(d) == d.exists

\* a buggy handler: only HTTP error statuses are caught
IsHTTPError(exc) == exc = "HTTPError"

\* except requests.RequestException
IsRequestException(exc) == exc \in {"Timeout", "HTTPError"}

---------------------------------------------------------------------------
(* Values every specification starts its unused variables from *)

NoFile == [exists |-> FALSE, data |-> <<>>]

NoRun ==
    /\ run = 0 /\ now = 0 /\ sheet_url = "" /\ readme = <<>>
    /\ readme_content = <<>> /\ existing_content = <<>> /\ disk = NoFile
    /\ exit_code = -1 /\ raised = "" /\ io_log = <<>>
    /\ sheet_fetch = "" /\ simplify_fetch = ""
    /\ prev_wrote = FALSE /\ prev_jobs = <<>>

NoCsv == csv_content = <<>> /\ column_mapping = <<>> /\ field_idx = 0

NoRow == job = <<>> /\ table_row = <<>>

NoLists == sheet_jobs = <<>> /\ simplify_jobs = <<>> /\ jobs = <<>>

---------------------------------------------------------------------------
(* SpecMerge: merge_jobs applied to every pair of bounded lists *)

\* a sheet record that has no location column
JobNoLocation == [k \in {"company", "role"} |->
                    IF k = "company" THEN <<"a">> ELSE <<"R">>]

MergePool ==
    {Job(c, <<"R">>, l, <<>>) : c \in {<<"A">>, <<"a">>, <<"B">>}, l \in {<<"x">>, <<"y">>}}
    \cup {JobNoLocation}

InitMerge ==
    /\ pc = "merge"
    /\ sheet_jobs \in SeqsUpTo(MergePool, MaxSheet)
    /\ simplify_jobs \in SeqsUpTo(MergePool \ {JobNoLocation}, MaxSimplify)
    /\ jobs = <<>>
    /\ NoRun /\ NoCsv /\ NoRow

MergeCall ==
    /\ pc = "merge"
    /\ jobs' = merge_jobs(sheet_jobs, simplify_jobs)
    /\ pc' = "merged"
    /\ UNCHANGED <<run, now, sheet_url, csv_content, readme, sheet_jobs, simplify_jobs,
                   readme_content, existing_content, disk, exit_code, raised, io_log,
                   sheet_fetch, simplify_fetch, prev_wrote, prev_jobs, column_mapping,
                   field_idx, job, table_row>>

NextMerge == MergeCall

SpecMerge == InitMerge /\ [][NextMerge]_vars

\* the dedup key as the specification words it
DedupKey(j) == <<Lower(j["company"]), Lower(j["role"])>>

AllInputs == sheet_jobs \o simplify_jobs

\* the first record of sheet_jobs followed by simplify_jobs that has key k
FirstWithKey(k) ==
    AllInputs[Min({i \in DOMAIN AllInputs : DedupKey(AllInputs[i]) = k})]

\* C1: the output of merge_jobs holds exactly one record for every dedup key that
\* occurs in either input, no record of any other key, and the record of a key is
\* its first occurrence in sheet_jobs followed by simplify_jobs
C1_OnePerKeyFirstWins ==
    pc = "merged" =>
        /\ \A i \in DOMAIN AllInputs :
              LET k == DedupKey(AllInputs[i]) IN
              /\ Cardinality({n \in DOMAIN jobs : DedupKey(jobs[n]) = k}) = 1
              /\ \A n \in DOMAIN jobs : DedupKey(jobs[n]) = k => jobs[n] = FirstWithKey(k)
        /\ \A n \in DOMAIN jobs :
              \E i \in DOMAIN AllInputs : DedupKey(AllInputs[i]) = DedupKey(jobs[n])

\* both sources hold the key, with different locations and a different letter case,
\* and the merge kept the sheet's location
C1_Witness ==
    /\ pc = "merged"
    /\ \E s \in DOMAIN sheet_jobs, t \in DOMAIN simplify_jobs, n \in DOMAIN jobs :
          /\ DedupKey(sheet_jobs[s]) = DedupKey(simplify_jobs[t])
          /\ sheet_jobs[s]["company"] # simplify_jobs[t]["company"]
          /\ Get(sheet_jobs[s], "location") # Get(simplify_jobs[t], "location")
          /\ jobs[n] = sheet_jobs[s]
          /\ \A m \in DOMAIN jobs : jobs[m] # simplify_jobs[t]

RECURSIVE IsSubsequence(_, _)
IsSubsequence(a, b) ==
    IF a = <<>> THEN TRUE
    ELSE IF b = <<>> THEN FALSE
    ELSE IF Head(a) = Head(b) THEN IsSubsequence(Tail(a), Tail(b))
    ELSE IsSubsequence(a, Tail(b))

\* C10: the output of merge_jobs is some retained sheet records, in their order in
\* sheet_jobs, followed by some retained SimplifyJobs records, in their order in
\* simplify_jobs; each is an input record, unchanged
C10_OrderPreserved ==
    pc = "merged" =>
        \E n \in 0..Len(jobs) :
            /\ IsSubsequence(SubSeq(jobs, 1, n), sheet_jobs)
            /\ IsSubsequence(SubSeq(jobs, n + 1, Len(jobs)), simplify_jobs)
            /\ n = Cardinality({i \in DOMAIN sheet_jobs :
                     \A h \in 1..(i - 1) : DedupKey(sheet_jobs[h]) # DedupKey(sheet_jobs[i])})

\* a duplicate was dropped, records of both sources were retained, and a retained
\* record still has its upper-case company
C10_Witness ==
    /\ pc = "merged"
    /\ Len(jobs) < Len(sheet_jobs) + Len(simplify_jobs)
    /\ Len(sheet_jobs) = 2 /\ jobs[1] = sheet_jobs[1]
    /\ Len(jobs) >= 2 /\ jobs[Len(jobs)] = simplify_jobs[Len(simplify_jobs)]
    /\ jobs[Len(jobs)] \notin {sheet_jobs[i] : i \in DOMAIN sheet_jobs}
    /\ jobs[1]["company"] # Lower(jobs[1]["company"])

---------------------------------------------------------------------------
(* SpecCsv: parse_csv on every header row over a bounded set of column names, *)
(* followed by one data row that holds the column number in every column      *)

HeaderNames ==
    { <<"C", "o", "m", "p", "a", "n", "y">>,
      <<"C", "o", "m", "p", "a", "n", "y", " ", "N">>,
      <<" ", "R", "O", "L", "E">>,
      <<"L", "o", "c", "a", "t", "i", "o", "n">>,
      <<"l", "i", "n", "k">>,
      <<"o">>,
      <<>>,
      <<"N", "o", "t", "e", "s">> }

NumberedRow(n) == [i \in 1..n |-> <<ToString(i)>>]

fieldnames == csv_content[1]

InitCsv ==
    /\ pc = "csv_header"
    /\ \E h \in SeqsUpTo(HeaderNames, MaxCols) : csv_content = <<h, NumberedRow(Len(h))>>
    /\ column_mapping = <<>>
    /\ field_idx = 0
    /\ NoRun /\ NoRow /\ NoLists

\* one iteration of the loop over reader.fieldnames
CsvMapField ==
    /\ pc = "csv_header"
    /\ field_idx < Len(fieldnames)
    /\ field_idx' = field_idx + 1
    /\ column_mapping' = MapField(column_mapping, fieldnames[field_idx + 1])
    /\ UNCHANGED <<pc, run, now, sheet_url, csv_content, readme, sheet_jobs,
                   simplify_jobs, jobs, readme_content, existing_content, disk,
                   exit_code, raised, io_log, sheet_fetch, simplify_fetch, prev_wrote,
                   prev_jobs, job, table_row>>

\* the loop over the data rows, and the return
CsvRows ==
    /\ pc = "csv_header"
    /\ field_idx = Len(fieldnames)
    /\ LET r == ParseRows(fieldnames, column_mapping, Tail(csv_content), <<>>) IN
       /\ sheet_jobs' = r.jobs
       /\ raised' = r.raised
    /\ pc' = "csv_done"
    /\ UNCHANGED <<run, now, sheet_url, csv_content, readme, simplify_jobs, jobs,
                   readme_content, existing_content, disk, exit_code, io_log,
                   sheet_fetch, simplify_fetch, prev_wrote, prev_jobs, column_mapping,
                   field_idx, job, table_row>>

NextCsv == CsvMapField \/ CsvRows

SpecCsv == InitCsv /\ [][NextCsv]_vars

\* the canonical field a header column matches: the first on the priority list
\* that overlaps it
ColumnMatches(i, e) ==
    LET m == MatchingExpected(fieldnames[i])
    IN  m # {} /\ EXPECTED_COLUMNS[Min(m)] = e

\* C2: the field mapping maps each canonical field to the first header column, in
\* order of appearance, that matches it; a later column that matches a field
\* already mapped does not replace it
C2_FirstMatchingColumnWins ==
    pc = "csv_done" =>
        \A e \in DOMAIN column_mapping :
            column_mapping[e] =
                fieldnames[Min({i \in DOMAIN fieldnames : ColumnMatches(i, e)})]

---------------------------------------------------------------------------
(* SpecRow: generate_table_row on the records the pipeline can hand it:    *)
(* company and role are non-empty and stripped                             *)

NameTexts == {<<"A">>, <<"A", "|", "B">>, <<"|">>, <<"BS", "|">>}

OtherTexts == NameTexts \cup {<<>>}

InitRow ==
    /\ pc = "row"
    /\ job \in {Job(c, r, l, a) : c \in NameTexts, r \in {<<"R">>, <<"R", "|">>},
                                  l \in OtherTexts, a \in OtherTexts}
    /\ table_row = <<>>
    /\ NoRun /\ NoCsv /\ NoLists

RowCall ==
    /\ pc = "row"
    /\ table_row' = generate_table_row(job)
    /\ pc' = "row_done"
    /\ UNCHANGED <<run, now, sheet_url, csv_content, readme, sheet_jobs, simplify_jobs,
                   jobs, readme_content, existing_content, disk, exit_code, raised,
                   io_log, sheet_fetch, simplify_fetch, prev_wrote, prev_jobs,
                   column_mapping, field_idx, job>>

NextRow == RowCall

SpecRow == InitRow /\ [][NextRow]_vars

\* the pipes of a row that no backslash precedes
UnescapedPipes(r) == {i \in DOMAIN r : r[i] = "|" /\ (i = 1 \/ r[i - 1] # "BS")}

\* C7: the row generate_table_row returns has exactly five unescaped pipes, the
\* cell delimiters: every pipe of a field value is preceded by a backslash
C7_FivePipes ==
    pc = "row_done" => Cardinality(UnescapedPipes(table_row)) = 5

---------------------------------------------------------------------------
(* SpecSimplify: the parsing of fetched documents: a section, or none, that *)
(* holds one row of up to MaxCells cells, alone or beside a fixed open row  *)

CellTexts ==
    { <<"<strong>", "<a href=c>", "A", "</a>", "</strong>">>,
      <<"<a href=c>", "A", "</a>", " ", "ARROW">>,
      <<"R">>,
      <<"R", " ", "LOCK">>,
      <<"ARROW">>,
      <<"<a href=u>", "<img>", "</a>">>,
      <<>> }

Cell(text) == <<"<td>">> \o text \o <<"</td>">>

TableRow(cells) ==
    <<"<tr>">> \o Concat([i \in DOMAIN cells |-> Cell(cells[i])]) \o <<"</tr>">>

OpenRow == TableRow(<< <<"<a href=d>", "B", "</a>">>, <<"R">>, <<"x">>,
                       <<"<a href=u>", "<img>", "</a>">> >>)

\* the documents that hold the row r
DocsWith(r) ==
    { <<"INTRO", "LF">> \o r,
      <<"INTRO", "LF", "HW_SECTION", "LF">> \o r,
      <<"HW_SECTION", "LF">> \o r \o <<"LF", "## ", "OTHER", "LF">> \o OpenRow,
      <<"HW_SECTION", "LF">> \o OpenRow \o <<"LF">> \o r }

InitSimplify ==
    /\ pc = "simplify"
    /\ \E cells \in SeqsUpTo(CellTexts, MaxCells) : readme \in DocsWith(TableRow(cells))
    /\ run = 0 /\ now = 0 /\ sheet_url = ""
    /\ readme_content = <<>> /\ existing_content = <<>> /\ disk = NoFile
    /\ exit_code = -1 /\ raised = "" /\ io_log = <<>>
    /\ sheet_fetch = "" /\ simplify_fetch = "ok"
    /\ prev_wrote = FALSE /\ prev_jobs = <<>>
    /\ NoCsv /\ NoRow /\ NoLists

SimplifyCall ==
    /\ pc = "simplify"
    /\ simplify_jobs' = ParseSimplify(readme)
    /\ pc' = "simplify_done"
    /\ UNCHANGED <<run, now, sheet_url, csv_content, readme, sheet_jobs, jobs,
                   readme_content, existing_content, disk, exit_code, raised, io_log,
                   sheet_fetch, simplify_fetch, prev_wrote, prev_jobs, column_mapping,
                   field_idx, job, table_row>>

NextSimplify == SimplifyCall

SpecSimplify == InitSimplify /\ [][NextSimplify]_vars

\* the rows of the Hardware Engineering section of the fetched document
SectionRows == IF HwSection(readme).found THEN TableRows(HwSection(readme).text) ELSE <<>>

\* a row with neither marker, at least 4 cells, a link text in cell 0 and a role
\* in cell 1
OpenPosition(r) ==
    /\ \A i \in DOMAIN r : r[i] # "LOCK"
    /\ \A c \in DOMAIN RowCells(r) : RowCells(r)[c] # <<"ARROW">>
    /\ Len(RowCells(r)) >= 4
    /\ LinkText(RowCells(r)[1]) # <<>>
    /\ StripTags(RowCells(r)[2]) # <<>>

\* C8: every record fetch_simplify_hardware_jobs returns comes from a row of the
\* section that has neither the closed glyph nor an arrow-only cell, has at least
\* 4 cells, a non-empty link text in cell 0 and a non-empty role in cell 1; there
\* are no more records than such rows
C8_OnlyOpenRows ==
    pc = "simplify_done" =>
        /\ \A n \in DOMAIN simplify_jobs :
              \E i \in DOMAIN SectionRows :
                  /\ OpenPosition(SectionRows[i])
                  /\ simplify_jobs[n]["company"] = LinkText(RowCells(SectionRows[i])[1])
                  /\ simplify_jobs[n]["role"] = StripTags(RowCells(SectionRows[i])[2])
        /\ Len(simplify_jobs) <= Cardinality({i \in DOMAIN SectionRows : OpenPosition(SectionRows[i])})

\* a section whose closed row (the glyph outside cell 0) and whose open row were
\* parsed: only the open row gave a record
C8_Witness ==
    /\ pc = "simplify_done"
    /\ Len(SectionRows) = 2
    /\ \E i \in DOMAIN SectionRows[2] : SectionRows[2][i] = "LOCK"
    /\ LinkText(RowCells(SectionRows[2])[1]) # <<>>
    /\ Len(RowCells(SectionRows[2])) >= 4
    /\ Len(simplify_jobs) = 1

---------------------------------------------------------------------------
(* Spec: runs of main, one after another, over README.md on disk *)

Company == <<"C", "o", "m", "p", "a", "n", "y">>
Role == <<"R", "o", "l", "e">>
Location == <<"L", "o", "c", "a", "t", "i", "o", "n">>

\* bodies a sheet can answer with: rows as long as the header, a shorter row, a
\* longer row, a duplicate, no row at all, a blank role, a line break in a field
CsvBodies ==
    { << <<Company, Role, Location>>, <<<<"A">>, <<"R">>, <<"x">>>> >>,
      << <<Company, Role, Location>>, <<<<"a">>, <<"R">>, <<"y">>>>, <<<<"A">>, <<"R">>, <<"x">>>> >>,
      << <<Company, Role, Location>>, <<<<"A">>, <<"R">>, <<"x">>>>, <<<<"B">>>> >>,
      << <<Company, Role, Location>>, <<<<"B">>, <<"R">>, <<"x">>, <<"z">>>> >>,
      <<>>,
      << <<Company, Role, Location>>, <<<<"A">>, <<" ">>, <<"x">>>> >>,
      << <<Company, Role, Location>>, <<<<"A">>, <<"R">>, <<"x", "CR", "LF", "y">>>> >> }

\* documents SimplifyJobs can answer with: no section, a section without rows, a
\* section with an open and a closed row, a section with two open rows
SimplifyDocs ==
    { <<"INTRO", "LF">> \o OpenRow,
      <<"HW_SECTION", "LF", "LF", "## ", "OTHER", "LF">> \o OpenRow,
      <<"HW_SECTION", "LF">> \o OpenRow
          \o TableRow(<< <<"<a href=c>", "A", "</a>">>, <<"R">>, <<"y">>, <<"LOCK">> >>),
      <<"HW_SECTION", "LF">>
          \o TableRow(<< <<"<a href=c>", "A", "</a>">>, <<"R">>, <<"y">>, <<"<a href=u>", "</a>">> >>)
          \o OpenRow }

FetchFailures == {"Timeout", "HTTPError"}

Init ==
    /\ pc = "sheet"
    /\ run = 1
    /\ now = 0
    /\ sheet_url \in {"", "URL"}
    /\ disk \in {NoFile, [exists |-> TRUE, data |-> <<"OLD", "LF">>]}
    /\ csv_content = <<>> /\ readme = <<>>
    /\ readme_content = <<>> /\ existing_content = <<>>
    /\ exit_code = -1 /\ raised = "" /\ io_log = <<>>
    /\ sheet_fetch = "" /\ simplify_fetch = ""
    /\ prev_wrote = FALSE /\ prev_jobs = <<>>
    /\ column_mapping = <<>> /\ field_idx = 0
    /\ NoRow /\ NoLists

\* "No Google Sheet URL configured, skipping..."
SkipSheet ==
    /\ pc = "sheet"
    /\ sheet_url = ""
    /\ pc' = "simplify"
    /\ UNCHANGED <<run, now, sheet_url, csv_content, readme, sheet_jobs, simplify_jobs,
                   jobs, readme_content, existing_content, disk, exit_code, raised,
                   io_log, sheet_fetch, simplify_fetch, prev_wrote, prev_jobs,
                   column_mapping, field_idx, job, table_row>>

\* the try block of main around fetch_csv_data and parse_csv, left with exception
\* exc ("" for none) and the parsed list
SheetBlock(fetch, content, exc, parsed) ==
    /\ sheet_fetch' = fetch
    /\ csv_content' = content
    /\ IF exc = "" \/ IsRequestException(exc)
       THEN /\ sheet_jobs' = (IF exc = "" THEN parsed ELSE <<>>)
            /\ pc' = "simplify"
            /\ UNCHANGED <<raised, exit_code>>
       ELSE /\ raised' = exc
            /\ exit_code' = 1
            /\ pc' = "done"
            /\ UNCHANGED sheet_jobs
    /\ UNCHANGED <<run, now, sheet_url, readme, simplify_jobs, jobs, readme_content,
                   existing_content, disk, io_log, simplify_fetch, prev_wrote,
                   prev_jobs, column_mapping, field_idx, job, table_row>>

\* requests.get times out, or raise_for_status raises
SheetFetchFails ==
    /\ pc = "sheet"
    /\ sheet_url # ""
    /\ \E exc \in FetchFailures : SheetBlock(exc, <<>>, exc, <<>>)

\* the sheet answers with a body, which parse_csv parses
SheetFetchOk ==
    /\ pc = "sheet"
    /\ sheet_url # ""
    /\ \E body \in CsvBodies :
          SheetBlock("ok", body, parse_csv(body).raised, parse_csv(body).jobs)

\* fetch_simplify_hardware_jobs: the fetch fails and the function returns []
SimplifyFetchFails ==
    /\ pc = "simplify"
    /\ \E exc \in FetchFailures :
          /\ simplify_fetch' = exc
          /\ IF IsRequestException(exc)
             THEN simplify_jobs' = <<>> /\ pc' = "merge" /\ UNCHANGED <<raised, exit_code>>
             ELSE raised' = exc /\ exit_code' = 1 /\ pc' = "done" /\ UNCHANGED simplify_jobs
    /\ UNCHANGED <<run, now, sheet_url, csv_content, readme, sheet_jobs, jobs,
                   readme_content, existing_content, disk, io_log, sheet_fetch,
                   prev_wrote, prev_jobs, column_mapping, field_idx, job, table_row>>

\* fetch_simplify_hardware_jobs: the document is fetched and parsed
SimplifyFetchOk ==
    /\ pc = "simplify"
    /\ \E doc \in SimplifyDocs :
          /\ readme' = doc
          /\ simplify_jobs' = ParseSimplify(doc)
    /\ simplify_fetch' = "ok"
    /\ pc' = "merge"
    /\ UNCHANGED <<run, now, sheet_url, csv_content, sheet_jobs, jobs, readme_content,
                   existing_content, disk, exit_code, raised, io_log, sheet_fetch,
                   prev_wrote, prev_jobs, column_mapping, field_idx, job, table_row>>

\* jobs = merge_jobs(sheet_jobs, simplify_jobs)
Merge ==
    /\ pc = "merge"
    /\ jobs' = merge_jobs(sheet_jobs, simplify_jobs)
    /\ pc' = "check"
    /\ UNCHANGED <<run, now, sheet_url, csv_content, readme, sheet_jobs, simplify_jobs,
                   readme_content, existing_content, disk, exit_code, raised, io_log,
                   sheet_fetch, simplify_fetch, prev_wrote, prev_jobs, column_mapping,
                   field_idx, job, table_row>>

\* "No jobs found from any source": sys.exit(1)
NoJobs ==
    /\ pc = "check"
    /\ jobs = <<>>
    /\ exit_code' = 1
    /\ pc' = "done"
    /\ UNCHANGED <<run, now, sheet_url, csv_content, readme, sheet_jobs, simplify_jobs,
                   jobs, readme_content, existing_content, disk, raised, io_log,
                   sheet_fetch, simplify_fetch, prev_wrote, prev_jobs, column_mapping,
                   field_idx, job, table_row>>

\* readme_content = generate_readme(jobs)
Generate ==
    /\ pc = "check"
    /\ jobs # <<>>
    /\ readme_content' = generate_readme(jobs, Timestamp(now))
    /\ pc' = "read"
    /\ UNCHANGED <<run, now, sheet_url, csv_content, readme, sheet_jobs, simplify_jobs,
                   jobs, existing_content, disk, exit_code, raised, io_log, sheet_fetch,
                   simplify_fetch, prev_wrote, prev_jobs, column_mapping, field_idx,
                   job, table_row>>

\* "Read existing README if it exists"
ReadExisting ==
    /\ pc = "read"
    /\ IF path_exists(disk)
       THEN /\ existing_content' = UniversalNewlines(disk.data)
            /\ io_log' = Append(io_log, "read")
       ELSE UNCHANGED <<existing_content, io_log>>
    /\ pc' = "compare"
    /\ UNCHANGED <<run, now, sheet_url, csv_content, readme, sheet_jobs, simplify_jobs,
                   jobs, readme_content, disk, exit_code, raised, sheet_fetch,
                   simplify_fetch, prev_wrote, prev_jobs, column_mapping, field_idx,
                   job, table_row>>

\* "No changes detected (excluding timestamp)": sys.exit(0)
NoChanges ==
    /\ pc = "compare"
    /\ strip_timestamp(existing_content) = strip_timestamp(readme_content)
    /\ exit_code' = 0
    /\ pc' = "done"
    /\ UNCHANGED <<run, now, sheet_url, csv_content, readme, sheet_jobs, simplify_jobs,
                   jobs, readme_content, existing_content, disk, raised, io_log,
                   sheet_fetch, simplify_fetch, prev_wrote, prev_jobs, column_mapping,
                   field_idx, job, table_row>>

\* "README.md updated successfully!": the write (the running platform's line
\* separator is "\n") and sys.exit(0)
WriteReadme ==
    /\ pc = "compare"
    /\ strip_timestamp(existing_content) # strip_timestamp(readme_content)
    /\ disk' = [exists |-> TRUE, data |-> readme_content]
    /\ io_log' = Append(io_log, "write")
    /\ exit_code' = 0
    /\ pc' = "done"
    /\ UNCHANGED <<run, now, sheet_url, csv_content, readme, sheet_jobs, simplify_jobs,
                   jobs, readme_content, existing_content, raised, sheet_fetch,
                   simplify_fetch, prev_wrote, prev_jobs, column_mapping, field_idx,
                   job, table_row>>

\* the periodic trigger starts the next run, in the same minute or a later one
NextRun ==
    /\ pc = "done"
    /\ run < MaxRuns
    /\ run' = run + 1
    /\ \E t \in now..MaxClock : now' = t
    /\ prev_wrote' = (\E i \in DOMAIN io_log : io_log[i] = "write")
    /\ prev_jobs' = jobs
    /\ pc' = "sheet"
    /\ csv_content' = <<>> /\ readme' = <<>>
    /\ sheet_jobs' = <<>> /\ simplify_jobs' = <<>> /\ jobs' = <<>>
    /\ readme_content' = <<>> /\ existing_content' = <<>>
    /\ exit_code' = -1 /\ raised' = "" /\ io_log' = <<>>
    /\ sheet_fetch' = "" /\ simplify_fetch' = ""
    /\ UNCHANGED <<sheet_url, disk, column_mapping, field_idx, job, table_row>>

Next ==
    \/ SkipSheet \/ SheetFetchFails \/ SheetFetchOk
    \/ SimplifyFetchFails \/ SimplifyFetchOk
    \/ Merge \/ NoJobs \/ Generate
    \/ ReadExisting \/ NoChanges \/ WriteReadme
    \/ NextRun

Spec == Init /\ [][Next]_vars

---------------------------------------------------------------------------
(* Claims about runs of main *)

Wrote == \E i \in DOMAIN io_log : io_log[i] = "write"

\* the run went through the comparison step: only NoChanges and WriteReadme exit 0
Compared == pc = "done" /\ exit_code = 0

\* the run went through merge_jobs: it follows the SimplifyJobs fetch at once
Merged == pc \in {"check", "read", "compare", "done"} /\ simplify_fetch # "" /\ raised = ""

\* C3: a run that reaches the comparison writes README.md exactly when the new
\* document differs from the previous one once the lines starting with
\* "**Last updated:**" are removed, and otherwise exits 0 without a write; so a run
\* over the record set of the run before it, which wrote the file, does not write
C3_WriteIffChanged ==
    /\ Compared =>
          (Wrote <=> strip_timestamp(existing_content) # strip_timestamp(readme_content))
    /\ (Compared /\ run > 1 /\ prev_wrote /\ prev_jobs = jobs) => ~Wrote

SheetFailed == sheet_fetch \in FetchFailures

SimplifyEmpty ==
    \/ simplify_fetch \in FetchFailures
    \/ simplify_fetch = "ok" /\ (\A i \in DOMAIN readme : readme[i] # "HW_SECTION")

RECURSIVE Deduplicated(_, _)
\* the records of js whose dedup key is not among keys nor on an earlier record
Deduplicated(js, keys) ==
    IF js = <<>> THEN <<>>
    ELSE IF DedupKey(Head(js)) \in keys THEN Deduplicated(Tail(js), keys)
    ELSE <<Head(js)>> \o Deduplicated(Tail(js), keys \cup {DedupKey(Head(js))})

\* C4: a failed fetch of one source does not abort the run.  After a failed sheet
\* fetch main goes on to fetch SimplifyJobs and the merged list is the deduplicated
\* SimplifyJobs records; after a failed SimplifyJobs fetch, or without the section,
\* that source gives no record and the merged list is the deduplicated sheet
\* records; either way a non-empty merged list is rendered and the run exits 0
C4_SourceFailureIsolated ==
    /\ SheetFailed => raised = "" /\ sheet_jobs = <<>> /\ (pc = "done" => simplify_fetch # "")
    /\ (SheetFailed /\ Merged) =>
          jobs = Deduplicated(IF simplify_fetch = "ok" THEN ParseSimplify(readme) ELSE <<>>, {})
    /\ SimplifyEmpty => raised = "" /\ simplify_jobs = <<>> /\ pc # "simplify"
    /\ (SimplifyEmpty /\ Merged) => jobs = Deduplicated(sheet_jobs, {})
    /\ ((SheetFailed \/ SimplifyEmpty) /\ pc = "done" /\ jobs # <<>>) =>
          /\ exit_code = 0
          /\ readme_content = generate_readme(jobs, Timestamp(now))

\* the sheet fetch timed out and the run still wrote the SimplifyJobs records
C4_Witness ==
    /\ pc = "done"
    /\ sheet_fetch = "Timeout"
    /\ simplify_fetch = "ok"
    /\ Len(jobs) = 2
    /\ Wrote

\* C5: no error leaves main: whatever the sources answer, no exception of
\* fetching, parsing, merging or rendering is left uncaught
C5_NoUncaughtException == raised = ""

\* C6: a run ends with a nonzero code exactly when the merged list is empty, and
\* then it does not write; a run with a non-empty merged list exits 0
C6_NonzeroIffNoRecords ==
    pc = "done" =>
        /\ exit_code # 0 <=> (Merged /\ jobs = <<>>)
        /\ exit_code # 0 => ~Wrote
        /\ jobs # <<>> => exit_code = 0

\* C9 as stated: every run reads README.md exactly once, and writes it at most
\* once, after the read (here of the runs that no exception ends)
C9_ExactlyOneRead ==
    (pc = "done" /\ raised = "") => io_log \in {<<"read">>, <<"read", "write">>}

\* C9 as amended: a run reads README.md at most once and writes it at most once,
\* never reading after the write; it reads exactly when it reaches the comparison
\* and the file exists; a run that ends without records or in an exception does
\* neither
C9_AtMostOneReadThenWrite ==
    /\ io_log \in {<<>>, <<"read">>, <<"write">>, <<"read", "write">>}
    /\ pc = "compare" => (io_log = <<"read">> <=> disk.exists)
    /\ pc \in {"sheet", "simplify", "merge", "check", "read"} => io_log = <<>>
    /\ (pc = "done" /\ exit_code # 0) => io_log = <<>>

\* a run that found no README.md and wrote it without a read
C9_Witness ==
    /\ pc = "done"
    /\ io_log = <<"write">>
    /\ disk.exists

====
